---- MODULE Spec2Model ----
(***************************************************************************)
(* A model of the package parser (src/unnamed/part_000): PackageParser's   *)
(* Parse loop over a multi-document YAML stream, the blank-document filter *)
(* isEmptyYAML and the error annotator annotateErr.                        *)
(*                                                                         *)
(* Strings are sequences of one-character strings.  The YAML reader and    *)
(* the two serializers are libraries outside this repository: the reader   *)
(* is modelled by the sequence of documents it yields and the way the      *)
(* stream ends, a serializer by the outcome its scheme gives for the kind  *)
(* a document declares.                                                    *)
(***************************************************************************)
EXTENDS Integers, Sequences, FiniteSets, TLC

\* ------------------------------------------------------------------ bounds

\* Longest stream, in documents, handed to Parse.
MaxDocs == 3

\* Longest document, in bytes, handed to the blank filter on its own.
MaxLen == 4

\* Longest stream, in documents, handed to a parser that parses it twice.
MaxAgainDocs == 2

\* Longest list of options handed to a constructor or to Init.
MaxOpts == 2

\* Most readers taken from one EchoBackend.
MaxStreams == 2

\* ------------------------------------------------------------- characters

NL == "\n"

\* Bytes the blank filter is exercised on: two of unicode.IsSpace's
\* characters besides the newline, the three marker characters and a letter.
Alphabet == {" ", "\r", NL, "-", ".", "#", "a"}

\* unicode.IsSpace, restricted to Alphabet.
IsSpace(c) == c \in {" ", "\r", NL}

StartMarker == <<"-", "-", "-">>
EndMarker == <<".", ".", ".">>
CommentMarker == <<"#">>

\* ------------------------------------------------------------ isEmptyYAML

\* Index of the first newline of s, 0 when it has none.
RECURSIVE IndexNL(_, _)
IndexNL(s, i) ==
    IF i > Len(s) THEN 0
    ELSE IF s[i] = NL THEN i
    ELSE IndexNL(s, i + 1)

\* strings.Split(s, "\n"): the pieces between newlines, at least one piece.
RECURSIVE Split(_)
Split(s) ==
    LET i == IndexNL(s, 1)
    IN  IF i = 0 THEN <<s>>
        ELSE <<SubSeq(s, 1, i - 1)>> \o Split(SubSeq(s, i + 1, Len(s)))

\* A trim of both ends of the line, as strings.TrimSpace does.
RECURSIVE TrimBothEnds(_)
TrimBothEnds(line) ==
    IF line = <<>> THEN line
    ELSE IF IsSpace(Head(line)) THEN TrimBothEnds(Tail(line))
    ELSE IF IsSpace(line[Len(line)]) THEN TrimBothEnds(SubSeq(line, 1, Len(line) - 1))
    ELSE line

\* strings.TrimLeftFunc(line, unicode.IsSpace).
RECURSIVE TrimLeftFunc(_)
TrimLeftFunc(line) ==
    IF line = <<>> THEN line
    ELSE IF IsSpace(Head(line)) THEN TrimLeftFunc(Tail(line))
    ELSE line

\* strings.HasPrefix(s, prefix).
HasPrefix(s, prefix) ==
    /\ Len(s) >= Len(prefix)
    /\ SubSeq(s, 1, Len(prefix)) = prefix

\* The condition of the loop body: the line has content.
LineHasContent(line) ==
    LET trimmed == TrimLeftFunc(line)
    IN  /\ trimmed # <<>>
        /\ trimmed # StartMarker
        /\ trimmed # EndMarker
        /\ ~HasPrefix(trimmed, CommentMarker)

\* The loop of isEmptyYAML from line i on: false at the first line that has
\* content, true when the lines run out.
RECURSIVE EmptyFrom(_, _)
EmptyFrom(lines, i) ==
    IF i > Len(lines) THEN TRUE
    ELSE IF LineHasContent(lines[i]) THEN FALSE
    ELSE EmptyFrom(lines, i + 1)

\* A filter that never skips: every document is classified.
isEmptyYAMLNever(y) == FALSE

isEmptyYAML(y) == EmptyFrom(Split(y), 1)

\* ------------------------------------------------------------------ state

VARIABLES
    metaScheme,  \* PackageParser.metaScheme: kind -> outcome of a decode
    objScheme,   \* PackageParser.objScheme: kind -> outcome of a decode
    pc,          \* position of the running Parse call
    reader,      \* the io.ReadCloser handed to Parse
    pos,         \* documents the YAML reader has yielded so far
    content,     \* the document last read (Parse's local content)
    empty,       \* the blank filter's answer for content
    pkg,         \* the Package of this call (meta and objects lists)
    ret,         \* the error Parse returns
    closed,      \* Close calls on the reader
    calls,       \* the calls Parse has made on its collaborators, in order
    ctx,         \* the context handed to Parse: "live" or "cancelled"
    first,       \* what the parser's previous Parse call returned
    backend,     \* the Backend under configuration
    prev,        \* the backend as it was before its last Init
    opts,        \* the options handed to the backend's last Init
    initRet,     \* what the backend's last Init returned
    streams,     \* the readers an EchoBackend has handed out
    frequency,   \* MRStateRecorder.frequency
    loop,        \* position of the goroutine Run starts
    ticker,      \* Run's ticker: "none", "running" or "stopped"
    ticks,       \* ticks waiting in ticker.C, which holds one
    quit,        \* Run's quit channel: "none", "open" or "closed"
    mrExists,    \* MRStateRecorder.mrExists: label -> value
    mrReady,     \* MRStateRecorder.mrReady: label -> value
    mrSynced,    \* MRStateRecorder.mrSynced: label -> value
    listed       \* what the last Record call's List returned

parseVars == <<metaScheme, objScheme, pc, reader, pos, content, empty, pkg, ret, closed, calls>>

backendVars == <<backend, prev, opts, initRet, streams>>

recorderVars == <<frequency, loop, ticker, ticks, quit, mrExists, mrReady, mrSynced, listed>>

vars == <<parseVars, ctx, first, backendVars, recorderVars>>

\* ------------------------------------------------------------ collaborators

\* Kinds a document can declare.
Kinds == {"Foo", "Bar"}

\* What a serializer's Decode can answer for a kind.
Outcomes == {"ok", "notRegistered", "malformed"}

\* Documents the YAML reader yields: a comment-only document, one document
\* per kind ("F" and "B" stand for "kind: Foo" and "kind: Bar") and a
\* document with content that declares no kind.
CommentDoc == <<"#", "a", NL>>
FooDoc == <<"F">>
BarDoc == <<"B", NL, ".", ".", ".">>
KindlessDoc == <<"a">>
Docs == {CommentDoc, FooDoc, BarDoc, KindlessDoc}

\* The kind a document declares, "" when it declares none.
KindOf(doc) ==
    IF doc = <<>> THEN ""
    ELSE IF Head(doc) = "F" THEN "Foo"
    ELSE IF Head(doc) = "B" THEN "Bar"
    ELSE ""

\* Readers: the documents the stream holds, whether reading past them fails
\* (instead of io.EOF) and whether the reader is an AnnotatedReadCloser.
NilReader == [isNil |-> TRUE, docs |-> <<>>, fails |-> FALSE, annotated |-> FALSE]

Streams == UNION {[1..n -> Docs] : n \in 0..MaxDocs}

Readers ==
    {NilReader} \cup
    [isNil : {FALSE}, docs : Streams, fails : BOOLEAN, annotated : BOOLEAN]

\* AnnotatedReadCloser.Annotate().
Annotate(r) == "source"

\* Errors: the nil error, a read failure of the stream, a decode failure of
\* one scheme on the document at index src; anno holds the annotations the
\* error was wrapped with, outermost first.
NilErr == [type |-> "nil", scheme |-> "", src |-> 0, anno |-> <<>>]

\* A slip that swallows the read failure.
ReadErrSwallowed(i) == [type |-> "nil", scheme |-> "", src |-> 0, anno |-> <<>>]

ReadErr(i) == [type |-> "read", scheme |-> "", src |-> i, anno |-> <<>>]
DecodeErr(scheme, outcome, i) == [type |-> outcome, scheme |-> scheme, src |-> i, anno |-> <<>>]

\* errors.Wrapf(err, "%+v", a).
Wrapf(err, a) == [err EXCEPT !.anno = <<a>> \o @]

\* The value a successful decode creates from the document at index i.
Object(scheme, doc, i) == [scheme |-> scheme, kind |-> KindOf(doc), src |-> i]

\* Serializer.Decode with a scheme: a document that declares no kind is
\* malformed, any other gets the scheme's answer for its kind.
Decode(scheme, doc) ==
    IF KindOf(doc) = "" THEN "malformed" ELSE scheme[KindOf(doc)]

\* One call on a collaborator, as recorded in calls.
Call(op, i, out) == [op |-> op, src |-> i, out |-> out]

\* --------------------------------------------------------------- operations

\* A slip that would classify every metadata failure as not-registered.
IsNotRegisteredErrorAlways(outcome) == TRUE

\* runtime.IsNotRegisteredError(err).
IsNotRegisteredError(outcome) == outcome = "notRegistered"

\* An annotator that forgets the annotation.
annotateErrDropped(err, r) == err

\* An annotator that wraps the error a second time.
annotateErrTwice(err, r) ==
    IF r.annotated THEN Wrapf(Wrapf(err, Annotate(r)), Annotate(r)) ELSE err

\* annotateErr(err, reader).
annotateErr(err, r) ==
    IF r.annotated THEN Wrapf(err, Annotate(r)) ELSE err

\* A slip that appends the metadata value a second time.
AppendMetaTwice(p, m) == [p EXCEPT !.meta = @ \o <<m, m>>]

\* A slip that puts the newest metadata value first.
AppendMetaFirst(p, m) == [p EXCEPT !.meta = <<m>> \o @]

\* pkg.meta = append(pkg.meta, m).
AppendMeta(p, m) == [p EXCEPT !.meta = Append(@, m)]

\* A slip that puts the newest object first.
AppendObjectFirst(p, o) == [p EXCEPT !.objects = <<o>> \o @]

\* pkg.objects = append(pkg.objects, o).
AppendObject(p, o) == [p EXCEPT !.objects = Append(@, o)]

\* A slip that returns the error the outer err variable still holds.
OuterErr(outer, inner) == outer

\* The err in scope after "o, _, err := do.Decode(...)": the new variable
\* shadows the metadata serializer's err.
ShadowingErr(outer, inner) == inner

\* A constructor that hands out a Package still holding an earlier value.
NewPackageStale == [meta |-> <<[scheme |-> "meta", kind |-> "Foo", src |-> 0]>>, objects |-> <<>>]

\* NewPackage().
NewPackage == [meta |-> <<>>, objects |-> <<>>]

\* ------------------------------------------------------------------ backends

\* A backend: its variant and the fields of every variant, those of the
\* other variants at their zero values.  "none" is no backend at all.
NoBackend ==
    [type |-> "none", client |-> "", name |-> "", namespace |-> "",
     fs |-> "", dir |-> "", skips |-> <<>>, echo |-> <<>>]

\* A BackendOption: the constructor that made it and its argument.
Option(kind, str, list) == [opt |-> kind, str |-> str, list |-> list]

\* PodName(name), PodNamespace(namespace), PodClient(client), FsDir(dir) and
\* FsFilters(skips...).
PodName(name) == Option("PodName", name, <<>>)
PodNamespace(namespace) == Option("PodNamespace", namespace, <<>>)
PodClient(client) == Option("PodClient", client, <<>>)
FsDir(dir) == Option("FsDir", dir, <<>>)
FsFilters(skips) == Option("FsFilters", "", skips)

\* The options tried: one of each constructor, and a second FsFilters.
Options ==
    {PodName("pod"), PodNamespace("ns"), PodClient("client"),
     FsDir("d1"),
     FsFilters(<<"f1">>), FsFilters(<<"f2", "f3">>)}

OptionLists == UNION {[1..n -> Options] : n \in 0..MaxOpts}

\* The body of the option PodName returns.
SetPodName(b, name) ==
    IF b.type # "pod" THEN b ELSE [b EXCEPT !.name = name]

\* The body of the option PodNamespace returns.
SetPodNamespace(b, namespace) ==
    IF b.type # "pod" THEN b ELSE [b EXCEPT !.namespace = namespace]

\* The body of the option PodClient returns.
SetPodClient(b, client) ==
    IF b.type # "pod" THEN b ELSE [b EXCEPT !.client = client]

\* An FsDir that skips the type test.
SetFsDirUnchecked(b, dir) == [b EXCEPT !.dir = dir]

\* The body of the option FsDir returns.
SetFsDir(b, dir) ==
    IF b.type # "fs" THEN b ELSE [b EXCEPT !.dir = dir]

\* An FsFilters that adds to the skips the backend has.
SetFsFiltersMerged(b, skips) ==
    IF b.type # "fs" THEN b ELSE [b EXCEPT !.skips = @ \o skips]

\* The body of the option FsFilters returns.
SetFsFilters(b, skips) ==
    IF b.type # "fs" THEN b ELSE [b EXCEPT !.skips = skips]

\* o(p): the option o applied to the backend b.
ApplyOption(o, b) ==
    CASE o.opt = "PodName" -> SetPodName(b, o.str)
      [] o.opt = "PodNamespace" -> SetPodNamespace(b, o.str)
      [] o.opt = "PodClient" -> SetPodClient(b, o.str)
      [] o.opt = "FsDir" -> SetFsDir(b, o.str)
      [] o.opt = "FsFilters" -> SetFsFilters(b, o.list)

\* A loop that stops at the first option that leaves the backend as it is.
RECURSIVE ApplyOptionsUntilIgnored(_, _)
ApplyOptionsUntilIgnored(b, bo) ==
    IF bo = <<>> THEN b
    ELSE IF ApplyOption(Head(bo), b) = b THEN b
    ELSE ApplyOptionsUntilIgnored(ApplyOption(Head(bo), b), Tail(bo))

\* for _, o := range bo { o(p) }.
RECURSIVE ApplyOptions(_, _)
ApplyOptions(b, bo) ==
    IF bo = <<>> THEN b
    ELSE ApplyOptions(ApplyOption(Head(bo), b), Tail(bo))

\* NewPodLogBackend(bo...).
NewPodLogBackend(bo) == ApplyOptions([NoBackend EXCEPT !.type = "pod"], bo)

\* NewNopBackend(...).
NewNopBackend(bo) == [NoBackend EXCEPT !.type = "nop"]

\* NewFsBackend(fs, bo...).
NewFsBackend(fs, bo) == ApplyOptions([NoBackend EXCEPT !.type = "fs", !.fs = fs], bo)

\* NewEchoBackend(echo).
NewEchoBackend(echo) == [NoBackend EXCEPT !.type = "echo", !.echo = echo]

\* What an Init returns: whether the reader is nil and its error.
InitReturn(isNil, err) == [isNil |-> isNil, err |-> err]

\* A NopBackend that hands out an empty reader instead of nil.
NopBackendInitEmptyReader(b, bo) ==
    [backend |-> b,
     reader |-> [isNil |-> FALSE, docs |-> <<>>, fails |-> FALSE, annotated |-> FALSE],
     ret |-> InitReturn(FALSE, "nil")]

\* NopBackend.Init: nil, nil, whatever the options.
NopBackendInit(b, bo) ==
    [backend |-> b, reader |-> NilReader, ret |-> InitReturn(TRUE, "nil")]

\* No backend in play.
BackendIdle ==
    /\ backend = NoBackend
    /\ prev = NoBackend
    /\ opts = <<>>
    /\ initRet = InitReturn(TRUE, "nil")
    /\ streams = <<>>

\* --------------------------------------------------------- state recorder

\* Most resources one List returns.
MaxItems == 2

\* gvk.String(), the label the gauges are set under.
Label == "gvk"

\* prometheus.NewGaugeVec: no value under any label.
NewGaugeVec == [l \in {} |-> 0]

\* g.WithLabelValues(label).Set(v).
Set(g, label, v) == [l \in DOMAIN g \cup {label} |-> IF l = label THEN v ELSE g[l]]

\* A condition of a managed resource.
Condition(type, status) == [type |-> type, status |-> status]

\* A listed resource: whether GetValueInto("status", ...) succeeds on it, and
\* the conditions it then yields.
Resource(paved, conditions) == [paved |-> paved, conditions |-> conditions]

\* The resources a List returns: one whose status cannot be read, one with no
\* condition, and ready and synced ones, one of them with Ready=True twice.
Resources ==
    {Resource(FALSE, <<>>),
     Resource(TRUE, <<>>),
     Resource(TRUE, <<Condition("Ready", "True")>>),
     Resource(TRUE, <<Condition("Synced", "True")>>),
     Resource(TRUE, <<Condition("Ready", "True"), Condition("Synced", "True")>>),
     Resource(TRUE, <<Condition("Ready", "False"), Condition("Synced", "True")>>),
     Resource(TRUE, <<Condition("Ready", "True"), Condition("Ready", "True")>>)}

\* What r.client.List returns: an error, or the items.
ListResult(err, items) == [err |-> err, items |-> items]

ListResults ==
    {ListResult(TRUE, <<>>)} \cup
    {ListResult(FALSE, items) : items \in UNION {[1..n -> Resources] : n \in 0..MaxItems}}

\* No List made yet.
NoList == ListResult(FALSE, <<>>)

\* condition.Type == TypeReady && condition.Status == ConditionTrue.
IsReady(c) == c.type = "Ready" /\ c.status = "True"

\* else if condition.Type == TypeSynced && condition.Status == ConditionTrue.
IsSynced(c) == ~IsReady(c) /\ c.type = "Synced" /\ c.status = "True"

\* What one item adds to numReady: nothing when its status cannot be read,
\* one for each of its Ready=True conditions otherwise.
ReadyIn(o) ==
    IF ~o.paved THEN 0
    ELSE Cardinality({k \in DOMAIN o.conditions : IsReady(o.conditions[k])})

\* What one item adds to numSynced.
SyncedIn(o) ==
    IF ~o.paved THEN 0
    ELSE Cardinality({k \in DOMAIN o.conditions : IsSynced(o.conditions[k])})

\* numReady after the loop over l.Items.
RECURSIVE NumReady(_)
NumReady(items) ==
    IF items = <<>> THEN 0 ELSE ReadyIn(Head(items)) + NumReady(Tail(items))

\* numSynced after the loop over l.Items.
RECURSIVE NumSynced(_)
NumSynced(items) ==
    IF items = <<>> THEN 0 ELSE SyncedIn(Head(items)) + NumSynced(Tail(items))

\* WithFrequency(f), as the frequency it sets.
WithFrequency(f) == f

\* The frequencies WithFrequency is given.
Frequencies == {0, 1}

\* The option lists NewMRStateRecorder is given.
RecorderOptions == {<<>>} \cup {<<WithFrequency(f)>> : f \in Frequencies}

\* r.frequency after NewMRStateRecorder(client, log, o...): zero, or what the
\* last option set.
NewFrequency(o) == IF o = <<>> THEN 0 ELSE o[Len(o)]

\* No recorder in play.
RecorderIdle ==
    /\ frequency = 0
    /\ loop = "none"
    /\ ticker = "none"
    /\ ticks = 0
    /\ quit = "none"
    /\ mrExists = NewGaugeVec
    /\ mrReady = NewGaugeVec
    /\ mrSynced = NewGaugeVec
    /\ listed = NoList

\* What a parser that has not parsed yet has returned.
NoResult == [set |-> FALSE, pkg |-> [meta |-> <<>>, objects |-> <<>>], ret |-> NilErr, calls |-> <<>>]

\* New(meta, obj): a parser over any two schemes, no Parse running.
Init ==
    /\ metaScheme \in [Kinds -> Outcomes]
    /\ objScheme \in [Kinds -> Outcomes]
    /\ pc = "idle"
    /\ reader = NilReader
    /\ pos = 0
    /\ content = <<>>
    /\ empty = FALSE
    /\ pkg = NewPackage
    /\ ret = NilErr
    /\ closed = 0
    /\ calls = <<>>
    /\ ctx = "live"
    /\ first = NoResult
    /\ BackendIdle
    /\ RecorderIdle

\* Parse up to the loop: the Package is created, a nil reader returns at
\* once, any other reader gets its Close deferred.
ParseBegin ==
    /\ pc = "idle"
    /\ \E r \in Readers :
        /\ reader' = r
        /\ pc' = IF r.isNil THEN "done" ELSE "read"
    /\ pkg' = NewPackage
    /\ ret' = NilErr
    /\ ctx' = "live"
    /\ UNCHANGED <<metaScheme, objScheme, pos, content, empty, closed, calls>>
    /\ UNCHANGED <<first, backendVars, recorderVars>>

\* Parse handed what a NopBackend's Init returns, whatever the options Init
\* was given.
ParseNopBackend ==
    /\ pc = "idle"
    /\ \E bo \in OptionLists :
        LET out == NopBackendInit(NewNopBackend(<<>>), bo)
        IN  /\ backend' = out.backend
            /\ initRet' = out.ret
            /\ reader' = out.reader
            /\ pc' = IF out.reader.isNil THEN "done" ELSE "read"
    /\ pkg' = NewPackage
    /\ ret' = NilErr
    /\ ctx' = "live"
    /\ UNCHANGED <<metaScheme, objScheme, pos, content, empty, closed, calls>>
    /\ UNCHANGED <<first, prev, opts, streams, recorderVars>>

\* yr.Read() and the three tests that follow it: a read failure returns it,
\* io.EOF leaves the loop, a blank document is skipped, any other document
\* goes on to the metadata serializer.
ReadDocument ==
    /\ pc = "read"
    /\ IF pos < Len(reader.docs)
       THEN LET doc == reader.docs[pos + 1]
            IN  /\ pos' = pos + 1
                /\ content' = doc
                /\ empty' = isEmptyYAML(doc)
                /\ calls' = Append(calls, Call("read", pos + 1, "ok"))
                /\ pc' = IF isEmptyYAML(doc) THEN "read" ELSE "decodeMeta"
                /\ UNCHANGED ret
       ELSE /\ calls' = Append(calls, Call("read", pos + 1, IF reader.fails THEN "error" ELSE "EOF"))
            /\ ret' = IF reader.fails THEN ReadErr(pos + 1) ELSE NilErr
            /\ pc' = "return"
            /\ UNCHANGED <<pos, content, empty>>
    /\ UNCHANGED <<metaScheme, objScheme, reader, pkg, closed>>
    /\ UNCHANGED <<ctx, first, backendVars, recorderVars>>

\* dm.Decode(content): a value is appended to meta; a failure other than
\* not-registered is returned annotated; not-registered goes on to the
\* object serializer.
DecodeMeta ==
    /\ pc = "decodeMeta"
    /\ LET out == Decode(metaScheme, content)
       IN  /\ calls' =
                IF out # "ok" /\ ~IsNotRegisteredError(out)
                THEN calls \o <<Call("dm", pos, out), Call("annotateErr", pos, out)>>
                ELSE Append(calls, Call("dm", pos, out))
           /\ IF out = "ok"
              THEN /\ pkg' = AppendMeta(pkg, Object("meta", content, pos))
                   /\ pc' = "read"
                   /\ UNCHANGED ret
              ELSE IF ~IsNotRegisteredError(out)
              THEN /\ ret' = annotateErr(DecodeErr("meta", out, pos), reader)
                   /\ pc' = "return"
                   /\ UNCHANGED pkg
              ELSE /\ pc' = "decodeObj"
                   /\ UNCHANGED <<pkg, ret>>
    /\ UNCHANGED <<metaScheme, objScheme, reader, pos, content, empty, closed>>
    /\ UNCHANGED <<ctx, first, backendVars, recorderVars>>

\* do.Decode(content): a value is appended to objects, a failure is
\* returned annotated.
DecodeObject ==
    /\ pc = "decodeObj"
    /\ LET out == Decode(objScheme, content)
       IN  /\ calls' =
                IF out # "ok"
                THEN calls \o <<Call("do", pos, out), Call("annotateErr", pos, out)>>
                ELSE Append(calls, Call("do", pos, out))
           /\ IF out = "ok"
              THEN /\ pkg' = AppendObject(pkg, Object("obj", content, pos))
                   /\ pc' = "read"
                   /\ UNCHANGED ret
              ELSE /\ ret' = annotateErr(
                                ShadowingErr(DecodeErr("meta", Decode(metaScheme, content), pos),
                                             DecodeErr("obj", out, pos)),
                                reader)
                   /\ pc' = "return"
                   /\ UNCHANGED pkg
    /\ UNCHANGED <<metaScheme, objScheme, reader, pos, content, empty, closed>>
    /\ UNCHANGED <<ctx, first, backendVars, recorderVars>>

\* A return that forgets the deferred Close.
DeferredCloseForgotten ==
    /\ pc = "return"
    /\ pc' = "done"
    /\ UNCHANGED <<metaScheme, objScheme, reader, pos, content, empty, pkg, ret, closed, calls>>
    /\ UNCHANGED <<ctx, first, backendVars, recorderVars>>

\* A return that asks the context before it closes the reader.
DeferredCloseAfterContext ==
    /\ pc = "return"
    /\ closed' = closed + 1
    /\ calls' = calls \o <<Call("ctx", 0, ctx), Call("close", 0, "ok")>>
    /\ pc' = "done"
    /\ UNCHANGED <<metaScheme, objScheme, reader, pos, content, empty, pkg, ret>>
    /\ UNCHANGED <<ctx, first, backendVars, recorderVars>>

\* The deferred reader.Close(), run as Parse returns from inside the loop.
DeferredClose ==
    /\ pc = "return"
    /\ closed' = closed + 1
    /\ calls' = Append(calls, Call("close", 0, "ok"))
    /\ pc' = "done"
    /\ UNCHANGED <<metaScheme, objScheme, reader, pos, content, empty, pkg, ret>>
    /\ UNCHANGED <<ctx, first, backendVars, recorderVars>>

Next ==
    \/ ParseBegin
    \/ ParseNopBackend
    \/ ReadDocument
    \/ DecodeMeta
    \/ DecodeObject
    \/ DeferredClose

Spec == Init /\ [][Next]_vars

\* --------------------------------------------------- one parser, two calls

\* Readers of at most MaxAgainDocs documents.
ShortReaders == {r \in Readers : Len(r.docs) <= MaxAgainDocs}

\* The first Parse call of a parser, up to the loop.
ParseFirst ==
    /\ pc = "idle"
    /\ \E r \in ShortReaders :
        /\ reader' = r
        /\ pc' = IF r.isNil THEN "done" ELSE "read"
    /\ pkg' = NewPackage
    /\ ret' = NilErr
    /\ ctx' = "live"
    /\ UNCHANGED <<metaScheme, objScheme, pos, content, empty, closed, calls>>
    /\ UNCHANGED <<first, backendVars, recorderVars>>

\* A second call that goes on with the Package of the first.
ParseAgainSamePackage ==
    /\ pc = "done"
    /\ ~first.set
    /\ first' = [set |-> TRUE, pkg |-> pkg, ret |-> ret, calls |-> calls]
    /\ ctx' \in {"live", "cancelled"}
    /\ pc' = IF reader.isNil THEN "done" ELSE "read"
    /\ pos' = 0
    /\ content' = <<>>
    /\ empty' = FALSE
    /\ ret' = NilErr
    /\ closed' = 0
    /\ calls' = <<>>
    /\ UNCHANGED <<metaScheme, objScheme, reader, pkg, backendVars, recorderVars>>

\* The second Parse call of the same parser, up to the loop, on a fresh
\* stream that carries the bytes of the first, with a context that may be
\* cancelled: a new Package, a new YAML reader, new locals.
ParseAgain ==
    /\ pc = "done"
    /\ ~first.set
    /\ first' = [set |-> TRUE, pkg |-> pkg, ret |-> ret, calls |-> calls]
    /\ ctx' \in {"live", "cancelled"}
    /\ pc' = IF reader.isNil THEN "done" ELSE "read"
    /\ pkg' = NewPackage
    /\ pos' = 0
    /\ content' = <<>>
    /\ empty' = FALSE
    /\ ret' = NilErr
    /\ closed' = 0
    /\ calls' = <<>>
    /\ UNCHANGED <<metaScheme, objScheme, reader, backendVars, recorderVars>>

NextAgain ==
    \/ ParseFirst
    \/ ReadDocument
    \/ DecodeMeta
    \/ DecodeObject
    \/ DeferredClose
    \/ ParseAgain

SpecAgain == Init /\ [][NextAgain]_vars

\* --------------------------------------------------- backends on their own

\* The strings an EchoBackend is made with.
EchoStrings == {<<"a">>, <<"a", "b">>}

\* A parser that is not parsing.
ParserIdle ==
    /\ metaScheme = [k \in Kinds |-> "ok"]
    /\ objScheme = [k \in Kinds |-> "ok"]
    /\ pc = "idle"
    /\ reader = NilReader
    /\ pos = 0
    /\ content = <<>>
    /\ empty = FALSE
    /\ pkg = NewPackage
    /\ ret = NilErr
    /\ closed = 0
    /\ calls = <<>>
    /\ ctx = "live"
    /\ first = NoResult

\* A backend fresh from its constructor; prev is the backend the constructor
\* applied its options to.
InitBackend ==
    /\ ParserIdle
    /\ RecorderIdle
    /\ initRet = InitReturn(TRUE, "none")
    /\ streams = <<>>
    /\ \/ \E bo \in OptionLists :
            /\ backend = NewPodLogBackend(bo)
            /\ prev = [NoBackend EXCEPT !.type = "pod"]
            /\ opts = bo
       \/ \E bo \in OptionLists :
            /\ backend = NewNopBackend(bo)
            /\ prev = [NoBackend EXCEPT !.type = "nop"]
            /\ opts = bo
       \/ \E bo \in OptionLists :
            /\ backend = NewFsBackend("fs", bo)
            /\ prev = [NoBackend EXCEPT !.type = "fs", !.fs = "fs"]
            /\ opts = bo
       \/ \E echo \in EchoStrings :
            /\ backend = NewEchoBackend(echo)
            /\ prev = NewEchoBackend(echo)
            /\ opts = <<>>

\* PodLogBackend.Init: the options are applied, then the log stream of the
\* pod is opened, which the client may refuse; a backend without a client
\* panics at p.client.CoreV1().
PodLogBackendInit ==
    /\ backend.type = "pod"
    /\ \E bo \in OptionLists, streamed \in BOOLEAN :
        LET p == ApplyOptions(backend, bo)
        IN  /\ backend' = p
            /\ prev' = backend
            /\ opts' = bo
            /\ initRet' = IF p.client = "" THEN InitReturn(TRUE, "panic")
                          ELSE IF streamed THEN InitReturn(FALSE, "nil")
                          ELSE InitReturn(TRUE, "stream")
    /\ UNCHANGED <<recorderVars, parseVars, ctx, first, streams>>

\* NopBackend.Init.
NopBackendInitCall ==
    /\ backend.type = "nop"
    /\ \E bo \in OptionLists :
        LET out == NopBackendInit(backend, bo)
        IN  /\ backend' = out.backend
            /\ prev' = backend
            /\ opts' = bo
            /\ initRet' = out.ret
    /\ UNCHANGED <<recorderVars, parseVars, ctx, first, streams>>

\* FsBackend.Init: the options are applied, then NewFsReadCloser walks the
\* directory, which may fail.
FsBackendInit ==
    /\ backend.type = "fs"
    /\ \E bo \in OptionLists, walked \in BOOLEAN :
        /\ backend' = ApplyOptions(backend, bo)
        /\ prev' = backend
        /\ opts' = bo
        /\ initRet' = IF walked THEN InitReturn(FALSE, "nil") ELSE InitReturn(TRUE, "walk")
    /\ UNCHANGED <<recorderVars, parseVars, ctx, first, streams>>

\* strings.NewReader(s) under io.NopCloser: a reader at the start of s; got
\* is what has been read from it.
NewReader(s) == [data |-> s, off |-> 0, got |-> <<>>, closed |-> FALSE]

\* An Init that hands out the reader it handed out before.
EchoBackendInitSameReader ==
    /\ backend.type = "echo"
    /\ Len(streams) < MaxStreams
    /\ \E bo \in OptionLists :
        LET p == ApplyOptions(backend, bo)
        IN  /\ backend' = p
            /\ prev' = backend
            /\ streams' = Append(streams,
                    IF streams = <<>> THEN NewReader(p.echo)
                    ELSE [streams[Len(streams)] EXCEPT !.got = <<>>])
    /\ initRet' = InitReturn(FALSE, "nil")
    /\ UNCHANGED <<recorderVars, parseVars, ctx, first, opts>>

\* EchoBackend.Init: the options are applied, then a new reader over the
\* echo string is returned.
EchoBackendInit ==
    /\ backend.type = "echo"
    /\ Len(streams) < MaxStreams
    /\ \E bo \in OptionLists :
        LET p == ApplyOptions(backend, bo)
        IN  /\ backend' = p
            /\ prev' = backend
            /\ streams' = Append(streams, NewReader(p.echo))
    /\ initRet' = InitReturn(FALSE, "nil")
    /\ UNCHANGED <<recorderVars, parseVars, ctx, first, opts>>

\* A Read of some bytes from one of the readers handed out.
StreamRead ==
    /\ \E i \in DOMAIN streams :
        /\ streams[i].off < Len(streams[i].data)
        /\ \E n \in 1..(Len(streams[i].data) - streams[i].off) :
            streams' = [streams EXCEPT
                ![i].got = @ \o SubSeq(streams[i].data, streams[i].off + 1, streams[i].off + n),
                ![i].off = @ + n]
    /\ UNCHANGED <<recorderVars, parseVars, ctx, first, backend, prev, opts, initRet>>

\* A Close of one of the readers handed out: io.NopCloser's Close does
\* nothing to the reader.
StreamClose ==
    /\ \E i \in DOMAIN streams :
        /\ ~streams[i].closed
        /\ streams' = [streams EXCEPT ![i].closed = TRUE]
    /\ UNCHANGED <<recorderVars, parseVars, ctx, first, backend, prev, opts, initRet>>

NextBackend ==
    \/ PodLogBackendInit
    \/ NopBackendInitCall
    \/ FsBackendInit
    \/ EchoBackendInit
    \/ StreamRead
    \/ StreamClose

SpecBackend == InitBackend /\ [][NextBackend]_vars

\* ------------------------------------------------- the recorder on its own

\* NewMRStateRecorder(client, log, o...): no loop started, no gauge set.
InitRun ==
    /\ ParserIdle
    /\ BackendIdle
    /\ \E o \in RecorderOptions : frequency = NewFrequency(o)
    /\ loop = "none"
    /\ ticker = "none"
    /\ ticks = 0
    /\ quit = "none"
    /\ mrExists = NewGaugeVec
    /\ mrReady = NewGaugeVec
    /\ mrSynced = NewGaugeVec
    /\ listed = NoList

\* Run(ctx, gvk): time.NewTicker panics on a frequency that is not positive;
\* otherwise the ticker runs, quit is made and the goroutine starts.
Run ==
    /\ loop = "none"
    /\ IF frequency <= 0
       THEN /\ loop' = "panicked"
            /\ UNCHANGED <<ticker, quit>>
       ELSE /\ ticker' = "running"
            /\ quit' = "open"
            /\ loop' = "select"
    /\ UNCHANGED <<frequency, ticks, mrExists, mrReady, mrSynced, listed>>
    /\ UNCHANGED <<parseVars, ctx, first, backendVars>>

\* The caller of Run cancels the context.
Cancel ==
    /\ ctx = "live"
    /\ ctx' = "cancelled"
    /\ UNCHANGED <<parseVars, first, backendVars, recorderVars>>

\* The running ticker delivers a tick on ticker.C, which holds one.
Tick ==
    /\ ticker = "running"
    /\ ticks = 0
    /\ ticks' = 1
    /\ UNCHANGED <<frequency, loop, ticker, quit, mrExists, mrReady, mrSynced, listed>>
    /\ UNCHANGED <<parseVars, ctx, first, backendVars>>

\* Record(ctx, gvk): a failed List returns with the gauges as they were; a
\* List that succeeds sets the three gauges under the label.
Record ==
    \E l \in ListResults :
        /\ listed' = l
        /\ IF l.err
           THEN UNCHANGED <<mrExists, mrReady, mrSynced>>
           ELSE /\ mrExists' = Set(mrExists, Label, Len(l.items))
                /\ mrReady' = Set(mrReady, Label, NumReady(l.items))
                /\ mrSynced' = Set(mrSynced, Label, NumSynced(l.items))

\* The cases of the goroutine's select that can proceed.
ReadyCases ==
    (IF ticks > 0 THEN {"ticker.C"} ELSE {}) \cup
    (IF quit = "closed" THEN {"quit"} ELSE {})

\* One round of the goroutine's for/select: a tick is received and Record
\* runs, or quit yields, the ticker is stopped and the goroutine returns.
LoopSelect ==
    /\ loop = "select"
    /\ \E case \in ReadyCases :
        IF case = "ticker.C"
        THEN /\ ticks' = ticks - 1
             /\ Record
             /\ UNCHANGED <<loop, ticker>>
        ELSE /\ ticker' = "stopped"
             /\ loop' = "returned"
             /\ UNCHANGED <<ticks, mrExists, mrReady, mrSynced, listed>>
    /\ UNCHANGED <<frequency, quit>>
    /\ UNCHANGED <<parseVars, ctx, first, backendVars>>

NextRun ==
    \/ Run
    \/ Cancel
    \/ Tick
    \/ LoopSelect

SpecRun == InitRun /\ [][NextRun]_vars

\* The goroutine is scheduled and the ticker ticks.
SpecRunFair == SpecRun /\ WF_vars(Tick) /\ WF_vars(LoopSelect)

\* ------------------------------------------- the blank filter on its own

\* Every byte sequence over Alphabet of at most MaxLen bytes.
Documents == UNION {[1..n -> Alphabet] : n \in 0..MaxLen}

\* A document is about to be handed to isEmptyYAML.
InitEmpty ==
    /\ metaScheme = [k \in Kinds |-> "ok"]
    /\ objScheme = [k \in Kinds |-> "ok"]
    /\ pc = "filter"
    /\ reader = NilReader
    /\ pos = 0
    /\ content \in Documents
    /\ empty = FALSE
    /\ pkg = NewPackage
    /\ ret = NilErr
    /\ closed = 0
    /\ calls = <<>>
    /\ ctx = "live"
    /\ first = NoResult
    /\ BackendIdle
    /\ RecorderIdle

\* isEmptyYAML(content).
FilterDocument ==
    /\ pc = "filter"
    /\ empty' = isEmptyYAML(content)
    /\ pc' = "filtered"
    /\ UNCHANGED <<metaScheme, objScheme, reader, pos, content, pkg, ret, closed, calls>>
    /\ UNCHANGED <<ctx, first, backendVars, recorderVars>>

NextEmpty == FilterDocument

SpecEmpty == InitEmpty /\ [][NextEmpty]_vars


\* -------------------------------------------------------------- properties

\* Indices at which a line of y starts: the first byte and the byte after
\* every newline (one past the end when y is empty or ends with a newline).
LineStarts(y) == {i \in 1..(Len(y) + 1) : i = 1 \/ y[i - 1] = NL}

\* The line of y that starts at s: the bytes up to the next newline.
LineAt(y, s) ==
    LET stop == CHOOSE j \in s..(Len(y) + 1) :
                    /\ j = Len(y) + 1 \/ y[j] = NL
                    /\ \A k \in s..(j - 1) : y[k] # NL
    IN  SubSeq(y, s, stop - 1)

\* A line that, after its leading whitespace, is empty, a marker or a comment.
BlankLine(l) ==
    \E k \in 0..Len(l) :
        /\ \A j \in 1..k : IsSpace(l[j])
        /\ k = Len(l) \/ ~IsSpace(l[k + 1])
        /\ LET rest == SubSeq(l, k + 1, Len(l))
           IN  \/ rest = <<>>
               \/ rest = <<"-", "-", "-">>
               \/ rest = <<".", ".", ".">>
               \/ (Len(rest) >= 1 /\ rest[1] = "#")

\* A blank document: every one of its lines is a blank line.
Blank(y) == \A s \in LineStarts(y) : BlankLine(LineAt(y, s))

\* The members of a set of indices, in ascending order.
RECURSIVE Ascending(_)
Ascending(S) ==
    IF S = {} THEN <<>>
    ELSE LET m == CHOOSE x \in S : \A z \in S : x <= z
         IN  <<m>> \o Ascending(S \ {m})

\* Indices of the documents of docs the metadata scheme decodes.
MetaDocs(docs) ==
    {i \in DOMAIN docs : ~Blank(docs[i]) /\ Decode(metaScheme, docs[i]) = "ok"}

\* Indices of the documents of docs that fall through to the object scheme
\* and are decoded by it.
ObjectDocs(docs) ==
    {i \in DOMAIN docs :
        /\ ~Blank(docs[i])
        /\ Decode(metaScheme, docs[i]) = "notRegistered"
        /\ Decode(objScheme, docs[i]) = "ok"}

\* The source indices of a list of decoded values, in list order.
Sources(list) == [k \in DOMAIN list |-> list[k].src]

\* How many values of the two lists come from the document at index i.
Occurrences(i) ==
    Cardinality({k \in DOMAIN pkg.meta : pkg.meta[k].src = i})
    + Cardinality({k \in DOMAIN pkg.objects : pkg.objects[k].src = i})

DecodeFailures == {"notRegistered", "malformed"}

\* Parse returned the failure of a decode of the document at index i.
FailedAt(i) == ret.type \in DecodeFailures /\ ret.src = i

\* C1: when Parse returns, every non-blank document read from the stream
\* put exactly one value in exactly one of the two lists, or is the document
\* whose decode failure Parse returns; no value comes from anything else.
C1_EveryDocumentAccounted ==
    pc = "done" =>
        /\ \A i \in 1..pos :
            ~Blank(reader.docs[i]) =>
                \/ Occurrences(i) = 1 /\ ~FailedAt(i)
                \/ Occurrences(i) = 0 /\ FailedAt(i)
        /\ \A i \in 1..pos : Blank(reader.docs[i]) => Occurrences(i) = 0
        /\ \A k \in DOMAIN pkg.meta : pkg.meta[k].src \in 1..pos
        /\ \A k \in DOMAIN pkg.objects : pkg.objects[k].src \in 1..pos

\* A parse that classified three documents, one of them into the other list.
C1_Witness ==
    /\ pc = "done"
    /\ pos = 3
    /\ Len(pkg.meta) + Len(pkg.objects) = 3
    /\ Len(pkg.meta) >= 1
    /\ Len(pkg.objects) >= 1

\* C2: in a Parse that returns no error, meta holds exactly the values of
\* the non-blank documents the metadata scheme decodes, in stream order, and
\* objects holds none of them, whatever the object scheme says of them.
C2_MetaInStreamOrder ==
    (pc = "done" /\ ret = NilErr) =>
        /\ pos = Len(reader.docs)
        /\ Sources(pkg.meta) = Ascending(MetaDocs(reader.docs))
        /\ \A k \in DOMAIN pkg.meta :
            pkg.meta[k] = Object("meta", reader.docs[pkg.meta[k].src], pkg.meta[k].src)
        /\ \A k \in DOMAIN pkg.objects : pkg.objects[k].src \notin MetaDocs(reader.docs)

\* Two metadata documents, the object scheme recognising them as well.
C2_Witness ==
    /\ pc = "done"
    /\ ret = NilErr
    /\ Len(pkg.meta) >= 2
    /\ pkg.objects = <<>>
    /\ \A k \in DOMAIN pkg.meta : Decode(objScheme, reader.docs[pkg.meta[k].src]) = "ok"

\* C3: in a Parse that returns no error, objects holds exactly the values of
\* the non-blank documents the metadata scheme does not know and the object
\* scheme decodes, in stream order.
C3_ObjectsInStreamOrder ==
    (pc = "done" /\ ret = NilErr) =>
        /\ Sources(pkg.objects) = Ascending(ObjectDocs(reader.docs))
        /\ \A k \in DOMAIN pkg.objects :
            pkg.objects[k] = Object("obj", reader.docs[pkg.objects[k].src], pkg.objects[k].src)

\* Two objects with a metadata document between them in the stream.
C3_Witness ==
    /\ pc = "done"
    /\ ret = NilErr
    /\ Sources(pkg.objects) = <<1, 3>>
    /\ Sources(pkg.meta) = <<2>>

\* A call that ends the parse with a decode failure: a metadata failure
\* other than not-registered, or any failure of the object scheme.
Terminal(c) ==
    \/ c.op = "dm" /\ c.out \notin {"ok", "notRegistered"}
    \/ c.op = "do" /\ c.out # "ok"

\* C4: the object scheme is tried on a document only right after the
\* metadata scheme failed on that document with not-registered; after any
\* other metadata failure nothing is read or decoded any more.
C4_ObjectSchemeOnlyAfterNotRegistered ==
    /\ \A k \in DOMAIN calls :
        calls[k].op = "do" =>
            /\ k > 1
            /\ calls[k - 1] = Call("dm", calls[k].src, "notRegistered")
    /\ \A k \in DOMAIN calls :
        (calls[k].op = "dm" /\ calls[k].out \notin {"ok", "notRegistered"}) =>
            /\ pc \in {"return", "done"}
            /\ \A j \in (k + 1)..Len(calls) : calls[j].op \notin {"read", "dm", "do"}

\* A malformed first document the object scheme would have decoded, with two
\* more documents left unread in the stream.
C4_Witness ==
    /\ pc = "done"
    /\ Len(reader.docs) = 3
    /\ pos = 1
    /\ Len(calls) >= 2
    /\ calls[2] = Call("dm", 1, "malformed")
    /\ Decode(objScheme, reader.docs[1]) = "ok"

\* The document at index i is known to neither scheme.
Neither(i) ==
    /\ ~Blank(reader.docs[i])
    /\ Decode(metaScheme, reader.docs[i]) = "notRegistered"
    /\ Decode(objScheme, reader.docs[i]) = "notRegistered"

\* The error Parse returns for a decode failure err.
Annotated(err) ==
    IF reader.annotated THEN [err EXCEPT !.anno = <<Annotate(reader)>>] ELSE err

\* C5 as stated: a document known to neither scheme makes Parse return the
\* metadata scheme's failure for it, and leaves no value in either list.
C5_ErrorReflectsMetadataFailure ==
    pc = "done" =>
        \A i \in 1..pos :
            Neither(i) =>
                /\ FailedAt(i)
                /\ ret.scheme = "meta"
                /\ Occurrences(i) = 0

\* C5 as amended: a document known to neither scheme ends the parse, the
\* error returned is the object scheme's not-registered failure for it, and
\* it leaves no value in either list.
C5_ErrorIsObjectSchemeFailure ==
    pc = "done" =>
        \A i \in 1..pos :
            Neither(i) =>
                /\ i = pos
                /\ ret = Annotated(DecodeErr("obj", "notRegistered", i))
                /\ Occurrences(i) = 0
                /\ \A k \in DOMAIN calls : calls[k].op = "read" => calls[k].src <= i

\* A second document known to neither scheme, after one that was decoded.
C5_Witness ==
    /\ pc = "done"
    /\ pos = 2
    /\ Len(reader.docs) = 3
    /\ Neither(2)
    /\ Len(pkg.meta) + Len(pkg.objects) = 1

\* Every non-blank document of docs is decoded by one of the two schemes.
Parses(docs) ==
    \A i \in DOMAIN docs : Blank(docs[i]) \/ i \in MetaDocs(docs) \cup ObjectDocs(docs)

\* C6: the Package is empty when the loop starts, and a Parse that returns
\* the decode failure of document j returns the lists a successful parse of
\* the documents before j produces.
C6_PartialPackageOnAbort ==
    /\ (pc = "read" /\ pos = 0) => pkg = [meta |-> <<>>, objects |-> <<>>]
    /\ pc = "done" =>
        \A j \in 1..Len(reader.docs) :
            FailedAt(j) =>
                LET prefix == SubSeq(reader.docs, 1, j - 1)
                IN  /\ j = pos
                    /\ Parses(prefix)
                    /\ Sources(pkg.meta) = Ascending(MetaDocs(prefix))
                    /\ Sources(pkg.objects) = Ascending(ObjectDocs(prefix))
                    /\ \A k \in DOMAIN pkg.meta :
                        pkg.meta[k] = Object("meta", prefix[pkg.meta[k].src], pkg.meta[k].src)
                    /\ \A k \in DOMAIN pkg.objects :
                        pkg.objects[k] = Object("obj", prefix[pkg.objects[k].src], pkg.objects[k].src)

\* A failure at the third document, after one value went to each list.
C6_Witness ==
    /\ pc = "done"
    /\ FailedAt(3)
    /\ Len(pkg.meta) = 1
    /\ Len(pkg.objects) = 1

\* C7: no blank document is handed to a serializer or leaves a value in a
\* list, and a stream of blank documents that ends with io.EOF gives an empty
\* Package and a nil error.
C7_BlankDocumentsSkipped ==
    /\ \A k \in DOMAIN calls :
        calls[k].op \in {"dm", "do"} => ~Blank(reader.docs[calls[k].src])
    /\ \A i \in 1..pos : Blank(reader.docs[i]) => Occurrences(i) = 0
    /\ (/\ pc = "done"
        /\ ~reader.fails
        /\ \A i \in DOMAIN reader.docs : Blank(reader.docs[i]))
        => /\ pkg = [meta |-> <<>>, objects |-> <<>>]
           /\ ret = NilErr
           /\ pos = Len(reader.docs)

\* Two blank documents, parsed with schemes that decode nothing.
C7_Witness ==
    /\ pc = "done"
    /\ Len(reader.docs) = 2
    /\ pos = 2
    /\ \A i \in DOMAIN reader.docs : Blank(reader.docs[i])
    /\ \A i \in DOMAIN reader.docs :
        Decode(metaScheme, reader.docs[i]) # "ok" /\ Decode(objScheme, reader.docs[i]) # "ok"
    /\ \A k \in Kinds : metaScheme[k] # "ok" /\ objScheme[k] # "ok"
    /\ ret = NilErr

\* C8: isEmptyYAML answers true exactly for the documents every line of
\* which, after its leading whitespace, is empty, a start marker, an end
\* marker or a comment; it answers for every document, and true for the
\* empty one.
C8_BlankIffEveryLineBlank ==
    pc = "filtered" =>
        /\ empty \in BOOLEAN
        /\ empty <=> Blank(content)
        /\ content = <<>> => empty

\* An end marker after leading whitespace, found blank.
C8_Witness ==
    /\ pc = "filtered"
    /\ content = <<" ", ".", ".", ".">>
    /\ empty

\* C9: a reader that is not nil is closed once by the time Parse returns,
\* whichever way it returns, and nothing is read after the Close.
C9_StreamClosedOnce ==
    /\ closed <= 1
    /\ closed = Cardinality({k \in DOMAIN calls : calls[k].op = "close"})
    /\ \A k \in DOMAIN calls : calls[k].op = "close" => k = Len(calls)
    /\ (pc = "done" /\ ~reader.isNil) => closed = 1

\* A read failure after two documents, and the stream closed.
C9_Witness ==
    /\ pc = "done"
    /\ ret.type = "read"
    /\ pos = 2
    /\ closed = 1

\* Calls of annotateErr made so far.
AnnotateCalls == {k \in DOMAIN calls : calls[k].op = "annotateErr"}

\* C10: a Parse ended by a decode failure returns that failure wrapped with
\* the reader's annotation when the reader has one and unchanged when it has
\* none; annotateErr is called at most once, never with a nil error, and not
\* at all when Parse returns nil.
C10_DecodeFailureAnnotatedOnce ==
    /\ Cardinality(AnnotateCalls) <= 1
    /\ \A k \in AnnotateCalls : calls[k].out \in DecodeFailures
    /\ Len(ret.anno) <= 1
    /\ (pc = "done" /\ ret = NilErr) => AnnotateCalls = {}
    /\ pc = "done" =>
        \A k \in DOMAIN calls :
            Terminal(calls[k]) =>
                LET failure == DecodeErr(IF calls[k].op = "dm" THEN "meta" ELSE "obj",
                                         calls[k].out, calls[k].src)
                IN  ret = IF reader.annotated
                          THEN [failure EXCEPT !.anno = <<"source">>]
                          ELSE failure

\* An object-scheme failure on the second document of an annotated reader.
C10_Witness ==
    /\ pc = "done"
    /\ reader.annotated
    /\ pos = 2
    /\ ret.scheme = "obj"
    /\ ret.anno = <<"source">>

\* C11 as stated: with an annotated reader every error Parse returns
\* carries the annotation, whichever failure ended the parse.
C11_EveryTerminalErrorAnnotated ==
    (pc = "done" /\ reader.annotated /\ ret # NilErr) =>
        ret.anno = <<Annotate(reader)>>

\* C11 as amended: with an annotated reader the decode failures Parse
\* returns carry the annotation, once, and a read failure is returned without
\* it.
C11_DecodeErrorsAnnotatedReadErrorsNot ==
    (pc = "done" /\ reader.annotated) =>
        /\ ret.type \in DecodeFailures => ret.anno = <<Annotate(reader)>>
        /\ ret.type = "read" => ret.anno = <<>>
        /\ ret.type \in DecodeFailures \cup {"read", "nil"}

\* A read failure on an annotated reader, after one document.
C11_Witness ==
    /\ pc = "done"
    /\ reader.annotated
    /\ ret.type = "read"
    /\ pos >= 1

\* Calls of yr.Read() that failed with an error other than io.EOF.
FailedReads == {k \in DOMAIN calls : calls[k].op = "read" /\ calls[k].out = "error"}

\* C12: a failed read ends the parse: no read and no decode follows it, the
\* read error is returned as it is, with the documents classified before it;
\* io.EOF is never returned as an error.
C12_ReadFailureAborts ==
    /\ \A k \in FailedReads :
        /\ pc \in {"return", "done"}
        /\ ret = [type |-> "read", scheme |-> "", src |-> calls[k].src, anno |-> <<>>]
        /\ \A j \in (k + 1)..Len(calls) : calls[j].op \notin {"read", "dm", "do", "annotateErr"}
        /\ Parses(reader.docs)
        /\ Sources(pkg.meta) = Ascending(MetaDocs(reader.docs))
        /\ Sources(pkg.objects) = Ascending(ObjectDocs(reader.docs))
    /\ \A k \in DOMAIN calls :
        (calls[k].op = "read" /\ calls[k].out = "EOF") =>
            /\ ret = NilErr
            /\ \A j \in (k + 1)..Len(calls) : calls[j].op = "close"
    /\ (pc = "done" /\ ~reader.isNil /\ reader.fails /\ Parses(reader.docs)) => ret.type = "read"

\* A read failure after three documents that went to both lists.
C12_Witness ==
    /\ pc = "done"
    /\ ret.type = "read"
    /\ pos = 3
    /\ Len(pkg.meta) >= 1
    /\ Len(pkg.objects) >= 1

\* C13: a NopBackend's Init returns a nil reader and a nil error, and Parse
\* of it, as of any nil reader, returns an empty Package and a nil error
\* without calling a serializer, the annotator or Close.
C13_NopBackendParsesEmpty ==
    /\ backend.type = "nop" => initRet = [isNil |-> TRUE, err |-> "nil"]
    /\ (pc = "done" /\ (reader.isNil \/ backend.type = "nop")) =>
        /\ pkg = [meta |-> <<>>, objects |-> <<>>]
        /\ ret = NilErr
        /\ calls = <<>>
        /\ closed = 0

\* A Parse of what a NopBackend returned, with schemes that decode every kind.
C13_Witness ==
    /\ backend.type = "nop"
    /\ pc = "done"
    /\ \A k \in Kinds : metaScheme[k] = "ok" /\ objScheme[k] = "ok"

\* C14: the second Parse of a parser, on a fresh stream with the bytes of
\* the first, returns the meta list, the objects list and the error the first
\* returned.
C14_SecondParseEqualsFirst ==
    (pc = "done" /\ first.set) =>
        /\ pkg.meta = first.pkg.meta
        /\ pkg.objects = first.pkg.objects
        /\ ret = first.ret

\* Two parses that each classified one document and failed on the next.
C14_Witness ==
    /\ pc = "done"
    /\ first.set
    /\ Len(pkg.meta) + Len(pkg.objects) = 1
    /\ ret.type \in DecodeFailures
    /\ ret.src = 2

\* Calls in which Parse consults its context.
ContextCalls == {k \in DOMAIN calls : calls[k].op = "ctx"}

\* C15 as stated: on every Parse of a reader that is not nil the context is
\* consulted after the stream is open and before it is closed.
C15_ContextConsultedBeforeClose ==
    (pc = "done" /\ ~reader.isNil) =>
        \E k \in ContextCalls :
            \A j \in DOMAIN calls : calls[j].op = "close" => k < j

\* C15 as amended: Parse never consults its context; with a cancelled
\* context it makes the calls, and closes the stream, as with a live one.
C15_ContextNeverConsulted ==
    /\ ContextCalls = {}
    /\ (pc = "done" /\ first.set) =>
        /\ calls = first.calls
        /\ pkg = first.pkg
        /\ ret = first.ret
        /\ ~reader.isNil => closed = 1

\* A Parse of two documents under a cancelled context, run to its Close.
C15_Witness ==
    /\ pc = "done"
    /\ first.set
    /\ ctx = "cancelled"
    /\ pos = 2
    /\ closed = 1

\* The backend variant an option is for.
Target(kind) ==
    IF kind \in {"PodName", "PodNamespace", "PodClient"} THEN "pod" ELSE "fs"

\* Positions of opts whose option is for another variant than the backend.
Foreign == {i \in DOMAIN opts : Target(opts[i].opt) # backend.type}

\* C16: an option for another variant changes no field of the backend and
\* raises no error; a backend given only such options is as it was, and an
\* EchoBackend and a NopBackend are as they were whatever the options.
C16_ForeignOptionsIgnored ==
    /\ \A o \in Options :
        Target(o.opt) # backend.type => ApplyOption(o, backend) = backend
    /\ Foreign = DOMAIN opts => backend = prev
    /\ backend.type \in {"echo", "nop"} =>
        /\ backend = prev
        /\ initRet.err \in {"none", "nil"}
    /\ backend.type = "pod" =>
        /\ backend.fs = prev.fs
        /\ backend.dir = prev.dir
        /\ backend.skips = prev.skips
        /\ backend.echo = prev.echo
    /\ backend.type = "fs" =>
        /\ backend.name = prev.name
        /\ backend.namespace = prev.namespace
        /\ backend.client = prev.client
        /\ backend.echo = prev.echo

\* A named pod backend whose Init was given a directory and filters.
C16_Witness ==
    /\ backend.type = "pod"
    /\ prev.name = "pod"
    /\ opts = <<FsDir("d1"), FsFilters(<<"f1">>)>>
    /\ initRet.err # "none"
    /\ backend = prev

\* The options of opts in the order f puts them in.
Reordered(f) == [i \in DOMAIN opts |-> opts[f[i]]]

\* Some option kind is in opts twice with different values.
Conflicting ==
    \E i, j \in DOMAIN opts : opts[i].opt = opts[j].opt /\ opts[i] # opts[j]

\* The options of one kind in opts.
OptsOf(kind) == {opts[i] : i \in DOMAIN opts} \cap {o \in Options : o.opt = kind}

\* A setting is the value of the options of its kind, when the backend is
\* their target and there are any, and is as it was otherwise.
Settled(kind, now, was) ==
    IF Target(kind) = backend.type /\ OptsOf(kind) # {}
    THEN \A o \in OptsOf(kind) : now = IF kind = "FsFilters" THEN o.list ELSE o.str
    ELSE now = was

\* C17 as stated: the configuration an option list leaves is the one every
\* permutation of the list leaves, lists with one kind at two values included.
C17_EveryOrderSameConfiguration ==
    \A f \in Permutations(DOMAIN opts) : ApplyOptions(prev, Reordered(f)) = backend

\* C17 as amended: the configuration an option list leaves is the one every
\* permutation of the list leaves when no kind is in the list with two values;
\* each setting is then the value of the option of its kind.
C17_OrderIndependentWithoutConflict ==
    ~Conflicting =>
        /\ \A f \in Permutations(DOMAIN opts) :
            ApplyOptions(prev, Reordered(f)) = backend
        /\ Settled("PodName", backend.name, prev.name)
        /\ Settled("PodNamespace", backend.namespace, prev.namespace)
        /\ Settled("PodClient", backend.client, prev.client)
        /\ Settled("FsDir", backend.dir, prev.dir)
        /\ Settled("FsFilters", backend.skips, prev.skips)

\* An FsBackend whose Init was given filters, then a directory.
C17_Witness ==
    /\ backend.type = "fs"
    /\ initRet.err # "none"
    /\ opts = <<FsFilters(<<"f2", "f3">>), FsDir("d1")>>
    /\ prev.dir = ""
    /\ prev.skips = <<"f1">>
    /\ backend.dir = "d1"
    /\ backend.skips = <<"f2", "f3">>

\* Positions of opts holding an option of one kind.
PositionsOf(kind) == {i \in DOMAIN opts : opts[i].opt = kind}

\* The option of one kind applied last.
LastOf(kind) ==
    opts[CHOOSE i \in PositionsOf(kind) : \A j \in PositionsOf(kind) : j <= i]

C19_EchoStreamsFreshAndComplete ==
    backend.type = "echo" =>
        /\ backend.echo = prev.echo
        /\ initRet.err \in {"none", "nil"}
        /\ streams # <<>> => initRet = InitReturn(FALSE, "nil")
        /\ \A i \in DOMAIN streams :
            /\ streams[i].data = backend.echo
            /\ streams[i].got = SubSeq(backend.echo, 1, streams[i].off)
            /\ streams[i].off = Len(streams[i].data) => streams[i].got = backend.echo

\* A second stream read to the end after the first was read in part and closed.
C19_Witness ==
    /\ backend.type = "echo"
    /\ backend.echo = <<"a", "b">>
    /\ Len(streams) = 2
    /\ streams[1].off = 1
    /\ streams[1].closed
    /\ streams[2].got = <<"a", "b">>

\* C20 as stated: once the context is cancelled the goroutine that Run
\* started stops the ticker and returns.
C20_LoopStopsAfterCancel ==
    (ctx = "cancelled" /\ loop = "select") ~> (loop = "returned" /\ ticker = "stopped")

\* C21 as stated: once a Record call's List has succeeded, the ready gauge
\* and the synced gauge under the label are each at most the exists gauge,
\* the number of resources listed, whatever conditions the resources carry.
C21_ReadyAndSyncedAtMostExists ==
    Label \in DOMAIN mrExists =>
        /\ mrReady[Label] <= mrExists[Label]
        /\ mrSynced[Label] <= mrExists[Label]

====
